---- MODULE Spec2Model ----
(***************************************************************************)
(* Model of the NAS100 Pro Trader dashboard (src/src/main.py): the         *)
(* profit-zone detector detect_profit_zones and the Streamlit script       *)
(* main() that feeds it the uploaded, the live or the cached bar series.   *)
(* TradingAssistant.detect_levels of the second script is the same code    *)
(* line for line, so the detector modelled here stands for both.           *)
(*                                                                         *)
(* Numbers.  pandas works on floats; the model works in fixed point.  One  *)
(* tick is 1/Scale of a price point and every price of the model is a      *)
(* whole multiple of PriceUnit (100 points).  In that domain every value   *)
(* the detector computes (the half range, the 51 bin edges, the 0.1%       *)
(* adjustment of the lowest edge, the three-decimal labels and their       *)
(* midpoints) is a whole number of ticks, so the integer operators below   *)
(* compute exactly what the float code computes.                           *)
(***************************************************************************)
EXTENDS Integers, Sequences, FiniteSets, TLC

VARIABLES
    observed,     \* the build's default of DataFrame.groupby(observed=...)
    source,       \* the table the data source delivers in this session
    session,      \* st.session_state.df: <<>> (absent) or <<frame>>
    df,           \* main()'s local df after the rerun: <<>> or <<frame>>
    arg,          \* that same frame as it was when handed to the detector
    bins,         \* detector local: the bin code of every bar (0 = NaN)
    vol_profile,  \* detector local: the rows of vol_profile
    support,      \* what the rerun displays as support levels
    resistance,   \* what the rerun displays as resistance levels
    errors,       \* the st.error messages of the rerun, in page order
    escaped       \* an exception left the detector and reached main()

vars == <<observed, source, session, df, arg, bins, vol_profile,
          support, resistance, errors, escaped>>

(***************************************************************************)
(* Program constants and model bounds                                      *)
(***************************************************************************)
BIN_COUNT == 50
TOP_K == 3

MaxBars == 3        \* bars of a free-form series
MaxPrice == 2       \* prices of a free-form series, in PriceUnits
MaxVolume == 1      \* volume of a bar of a free-form series
MaxLadder == 7      \* bars of a sample-like price ladder
LadderVolume == 1   \* volume of a bar of a price ladder
MaxBadBars == 1     \* bars of a series that lacks a column

Scale == 2 * 1000            \* ticks per price point
Milli == Scale \div 1000     \* 0.001 price points, in ticks
PriceUnit == 100 * Scale     \* 100 price points, in ticks

\* The columns the detector reads.  Open and Close, which line 104 selects
\* with them, play no part in the detector and are left out of the frames.
Required == {"High", "Low", "Volume"}
InputColumns == {"Date"} \cup Required

(***************************************************************************)
(* Data frames: a set of column names and a sequence of rows, each row a   *)
(* function from the column names to values.                               *)
(***************************************************************************)
\* the sequence <<At(1), ..., At(n)>>
Array(n, At(_)) == SubSeq([k \in 1..n |-> At(k)], 1, n)

Frame(cols, rows) == [cols |-> cols, rows |-> rows]

Column(f, c) == Array(Len(f.rows), LAMBDA k : f.rows[k][c])

SetColumn(f, c, v) ==
    Frame(f.cols \cup {c},
          Array(Len(f.rows), LAMBDA k :
              [x \in f.cols \cup {c} |-> IF x = c THEN v[k] ELSE f.rows[k][x]]))

Select(f, cols) ==
    Frame(cols, Array(Len(f.rows), LAMBDA k : [x \in cols |-> f.rows[k][x]]))

(***************************************************************************)
(* Line 19: df['Range'] = (df['High'] - df['Low']) * 0.5 + df['Low']       *)
(***************************************************************************)
Half(x) == x \div 2

RangeValue(high, low) == Half(high - low) + low

RangeColumn(f) ==
    Array(Len(f.rows), LAMBDA k : RangeValue(f.rows[k]["High"], f.rows[k]["Low"]))

\* the midpoint is also written over the Low column
AssignRangeOverLow(f) ==
    SetColumn(SetColumn(f, "Range", RangeColumn(f)), "Low", RangeColumn(f))

AssignRange(f) == SetColumn(f, "Range", RangeColumn(f))

(***************************************************************************)
(* Line 20: pd.cut(df['Range'], bins=50, include_lowest=True)              *)
(***************************************************************************)
SeqMin(x) == CHOOSE m \in {x[k] : k \in 1..Len(x)} : \A k \in 1..Len(x) : m <= x[k]

SeqMax(x) == CHOOSE m \in {x[k] : k \in 1..Len(x)} : \A k \in 1..Len(x) : m >= x[k]

Abs(x) == IF x < 0 THEN 0 - x ELSE x

Thousandth(x) == x \div 1000

\* np.linspace(mn, mx, BIN_COUNT + 1)[i]
Linspace(mn, mx, i) == mn + (i * (mx - mn)) \div BIN_COUNT

\* _nbins_to_bins: the 51 edges; a zero span is widened by 0.1% of the value
\* on both sides, otherwise the lowest edge is lowered by 0.1% of the span.
\* numpy counts the edges from 0: bins[i] is the element i + 1 of the sequence.
BinEdges(x) ==
    LET mn == SeqMin(x)
        mx == SeqMax(x)
        lo == mn - (IF mn # 0 THEN Thousandth(Abs(mn)) ELSE Milli)
        hi == mx + (IF mx # 0 THEN Thousandth(Abs(mx)) ELSE Milli)
    IN  IF mn = mx
        THEN Array(BIN_COUNT + 1, LAMBDA e : Linspace(lo, hi, e - 1))
        ELSE Array(BIN_COUNT + 1, LAMBDA e :
                 IF e = 1 THEN mn - Thousandth(mx - mn) ELSE Linspace(mn, mx, e - 1))

\* bins.searchsorted(v, side="left"): the number of edges below v
SearchSortedLeft(edges, v) == Cardinality({e \in 1..Len(edges) : edges[e] < v})

\* a right-open binning (searchsorted side="right") that lets the highest
\* value fall off the last bin
BinCodeRightOpen(edges, v) ==
    LET ids == Cardinality({e \in 1..Len(edges) : edges[e] <= v})
    IN  IF ids = 0 \/ ids = BIN_COUNT + 1 THEN 0 ELSE ids

\* _bins_to_cuts: bin i is (edges[i-1], edges[i]]; include_lowest puts a value
\* equal to the lowest edge into bin 1; a value outside every bin is NaN (0).
BinCode(edges, v) ==
    LET ids == IF v = edges[1] THEN 1 ELSE SearchSortedLeft(edges, v)
    IN  IF ids = 0 \/ ids = BIN_COUNT + 1 THEN 0 ELSE ids

\* _round_frac at precision 3: to the nearest 0.001
Round3(x) == ((x + Milli \div 2) \div Milli) * Milli

\* _format_labels: right-closed intervals between the rounded edges, the
\* lowest of them lowered by 10^-3 because of include_lowest.
Breaks(edges) ==
    Array(Len(edges), LAMBDA e :
        IF e = 1 THEN Round3(edges[1]) - Milli ELSE Round3(edges[e]))

Categories(edges) ==
    LET b == Breaks(edges)
    IN  Array(BIN_COUNT, LAMBDA i : [left |-> b[i], right |-> b[i + 1]])

\* pd.cut: raises on an empty array (the caller tests for it), otherwise the
\* code of every value and the 50 interval categories.
Cut(x) ==
    LET edges == BinEdges(x)
    IN  [codes      |-> Array(Len(x), LAMBDA k : BinCode(edges, x[k])),
         categories |-> Categories(edges)]

(***************************************************************************)
(* Lines 22-25: df.groupby(bins)['Volume'].sum().reset_index() and 'mid'   *)
(***************************************************************************)
\* sum(): the summed volume of every category, accumulated bar by bar; a bar
\* whose code is NaN belongs to no group
GroupSums(codes, volume) ==
    LET S[k \in 0..Len(volume)] ==
            IF k = 0 THEN [i \in 1..BIN_COUNT |-> 0]
            ELSE IF codes[k] = 0 THEN S[k - 1]
            ELSE [S[k - 1] EXCEPT ![codes[k]] = @ + volume[k]]
    IN  S[Len(volume)]

\* The group keys: every category when observed=False, only the categories
\* some bar fell into when observed=True; NaN codes are dropped either way.
GroupKeys(codes, obs) ==
    LET seen == {codes[k] : k \in 1..Len(codes)}
    IN  SelectSeq([i \in 1..BIN_COUNT |-> i], LAMBDA i : ~obs \/ i \in seen)

\* One row per group key, in category order: the interval and the summed
\* volume (the sum of an empty group is 0).
GroupBySum(cut, volume, obs) ==
    LET keys == GroupKeys(cut.codes, obs)
        sums == GroupSums(cut.codes, volume)
    IN  Array(Len(keys), LAMBDA j :
            [Range |-> cut.categories[keys[j]], Volume |-> sums[keys[j]]])

IsInterval(x) == DOMAIN x = {"left", "right"}

\* Interval.mid
Mid(interval) == Half(interval.left + interval.right)

\* the 'mid' cell: <<m>> for a number, <<>> for NaN
AddMid(profile) ==
    Array(Len(profile), LAMBDA j :
        [Range  |-> profile[j].Range,
         Volume |-> profile[j].Volume,
         mid    |-> IF IsInterval(profile[j].Range)
                    THEN <<Mid(profile[j].Range)>> ELSE <<>>])

\* Line 27: vol_profile.dropna()
DropNa(profile) == SelectSeq(profile, LAMBDA r : r.mid # <<>>)

(***************************************************************************)
(* Lines 28-29: nlargest(3, 'Volume') and nsmallest(3, 'Volume').  pandas  *)
(* sorts the keys (the negated volumes for nlargest) with a stable         *)
(* mergesort and keeps the first n: ties go to the earlier row.            *)
(***************************************************************************)
\* the sorted positions so far and the next one: of the positions left, the
\* one of the smallest key, the earliest of them when keys are equal
ExtendSorted(key, prev) ==
    LET rest == {j \in 1..Len(key) : \A q \in 1..Len(prev) : prev[q] # j}
    IN  IF rest = {} THEN prev
        ELSE Append(prev, CHOOSE j \in rest : \A r \in rest :
                        key[j] < key[r] \/ (key[j] = key[r] /\ j <= r))

\* argsort(kind="mergesort")[:n]: the positions of the n smallest keys, in
\* key order, equal keys in position order
ArgSortFirst(key, n) ==
    LET pick[p \in 0..n] == IF p = 0 THEN <<>> ELSE ExtendSorted(key, pick[p - 1])
    IN  pick[n]

Volumes(profile) == Array(Len(profile), LAMBDA j : profile[j].Volume)

Negated(key) == Array(Len(key), LAMBDA j : 0 - key[j])

Rows(profile, idx) == Array(Len(idx), LAMBDA p : profile[idx[p]])

\* the keys are not negated: the rows of the smallest volumes come first
NLargestNotNegated(profile, n) == Rows(profile, ArgSortFirst(Volumes(profile), n))

NLargest(profile, n) == Rows(profile, ArgSortFirst(Negated(Volumes(profile)), n))

NSmallest(profile, n) == Rows(profile, ArgSortFirst(Volumes(profile), n))

\* [...]['mid'].values
MidValues(rows) == Array(Len(rows), LAMBDA j : rows[j].mid[1])

\* the values are returned in selection order
Unsorted(s) == s

\* Line 31: sorted(...), ascending and stable
Sorted(s) == Rows(s, ArgSortFirst(s, Len(s)))

(***************************************************************************)
(* Lines 18-31: the body of the try block.  exc is <<>> when the body      *)
(* returns and <<[type, msg]>> when it raises; frame is the caller's frame *)
(* object as the body leaves it.                                           *)
(***************************************************************************)
Raise(type, msg, f, codes) ==
    [exc |-> <<[type |-> type, msg |-> msg]>>, frame |-> f, bins |-> codes,
     vol_profile |-> <<>>, support |-> <<>>, resistance |-> <<>>]

DetectBody(f, obs) ==
    IF "High" \notin f.cols THEN Raise("KeyError", "'High'", f, <<>>)
    ELSE IF "Low" \notin f.cols THEN Raise("KeyError", "'Low'", f, <<>>)
    ELSE
      LET f1 == AssignRange(f)
          x  == Column(f1, "Range")
      IN  IF Len(x) = 0 THEN Raise("ValueError", "Cannot cut empty array", f1, <<>>)
          ELSE
            LET cut == Cut(x)
            IN  IF "Volume" \notin f1.cols
                THEN Raise("KeyError", "'Column not found: Volume'", f1, cut.codes)
                ELSE
                  LET profile == AddMid(GroupBySum(cut, Column(f1, "Volume"), obs))
                      valid   == DropNa(profile)
                  IN  [exc         |-> <<>>,
                       frame       |-> f1,
                       bins        |-> cut.codes,
                       vol_profile |-> profile,
                       support     |-> Sorted(MidValues(NLargest(valid, TOP_K))),
                       resistance  |-> Sorted(MidValues(NSmallest(valid, TOP_K)))]

\* an except clause that names KeyError only
ExceptKeyError(type) == type = "KeyError"

\* Line 33: except Exception catches every exception the body can raise
ExceptException(type) == type \in {"KeyError", "ValueError", "TypeError"}

\* Lines 16-35: the detector as its caller sees it
detect_profit_zones(f, obs) ==
    LET body == DetectBody(f, obs)
    IN  IF body.exc = <<>>
        THEN [body EXCEPT !.exc = <<>>] @@ [error |-> <<>>, escaped |-> FALSE]
        ELSE IF ExceptException(body.exc[1].type)
        THEN [body EXCEPT !.exc = <<>>]
             @@ [error |-> <<"Analysis error: " \o body.exc[1].msg>>, escaped |-> FALSE]
        ELSE body @@ [error |-> <<>>, escaped |-> TRUE]

(***************************************************************************)
(* The bar series of the model.  A free-form series is any sequence of up  *)
(* to MaxBars bars with Low <= High; a ladder is the shape of the sample   *)
(* file main() offers for download (lines 142-149): prices rising by one   *)
(* step per bar, High one PriceUnit above Low, any volumes; a ramp is a    *)
(* ladder whose volume grows with the price, any of its bars possibly      *)
(* without volume.  A series that lacks columns has any proper subset of   *)
(* the input columns.                                                      *)
(***************************************************************************)
FreeBars ==
    {b \in {[Low |-> l * PriceUnit, High |-> h * PriceUnit, Volume |-> v] :
               l \in 1..MaxPrice, h \in 1..MaxPrice, v \in 0..MaxVolume} :
        b.Low <= b.High}

BarSeqs(n) == UNION {[1..m -> FreeBars] : m \in 0..n}

Ladders ==
    UNION {{[k \in 1..n |-> [Low |-> k * PriceUnit, High |-> (k + 1) * PriceUnit,
                             Volume |-> vol[k]]] : vol \in [1..n -> 0..LadderVolume]} :
           n \in 1..MaxLadder}

Ramps ==
    UNION {{[k \in 1..n |-> [Low |-> k * PriceUnit, High |-> (k + 1) * PriceUnit,
                             Volume |-> IF traded[k] THEN k ELSE 0]] :
               traded \in [1..n -> BOOLEAN]} :
           n \in 1..MaxLadder}

\* the table with the given columns; the date of a bar is its position
Table(bars, cols) ==
    Frame(cols, Array(Len(bars), LAMBDA k :
                    [c \in cols |-> IF c = "Date" THEN k ELSE bars[k][c]]))

Sources ==
    {Table(bars, InputColumns) : bars \in BarSeqs(MaxBars) \cup Ladders \cup Ramps}
    \cup {Table(bars, cols) : bars \in BarSeqs(MaxBadBars),
                              cols \in (SUBSET InputColumns) \ {InputColumns}}

(***************************************************************************)
(* main(), lines 66-136: one rerun of the script.                          *)
(***************************************************************************)
\* Lines 47-56 and 89: the fetched frame, indexed by time, after reset_index()
LiveFrame(t) ==
    LET cols == (t.cols \ {"Date"}) \cup {"index"}
    IN  Frame(cols, Array(Len(t.rows), LAMBDA k :
                        [c \in cols |-> IF c = "index" THEN k ELSE t.rows[k][c]]))

\* Line 103: set_index(pd.to_datetime(df[dt_col])).drop(columns=[dt_col])
SetDateIndex(t) == Select(t, t.cols \ {"Date"})

\* What one run of the script leaves behind, as a record of the new values.
Script(uploaded_file, button) ==
    LET \* lines 85-90
        errs1    == IF button = "fail" THEN <<"Live data error">> ELSE <<>>
        session1 == IF button = "ok" THEN <<LiveFrame(source)>> ELSE session
        \* lines 97-110
        dt_col   == "Date" \in source.cols
        indexed  == SetDateIndex(source)
        csv_ok   == uploaded_file /\ dt_col /\ Required \subseteq indexed.cols
        errs2    == IF ~uploaded_file \/ csv_ok THEN errs1
                    ELSE IF dt_col THEN errs1 \o <<"CSV Error">>
                    ELSE errs1 \o <<"DateTime column not found">>
        local    == IF csv_ok THEN <<Select(indexed, Required)>>
                    ELSE IF uploaded_file /\ dt_col THEN <<indexed>>
                    ELSE IF uploaded_file THEN <<source>>
                    ELSE session1                          \* lines 112-113
        aliased  == csv_ok \/ ~uploaded_file               \* lines 105, 113
        session2 == IF csv_ok THEN local ELSE session1
    IN  IF local = <<>>                                    \* line 118
        THEN [session |-> session2, df |-> <<>>, arg |-> <<>>, bins |-> <<>>,
              vol_profile |-> <<>>, support |-> <<>>, resistance |-> <<>>,
              errors |-> errs2, escaped |-> FALSE]
        ELSE LET r == detect_profit_zones(local[1], observed)      \* line 120
             IN  [session     |-> IF aliased THEN <<r.frame>> ELSE session2,
                  df          |-> <<r.frame>>,
                  arg         |-> local,
                  bins        |-> r.bins,
                  vol_profile |-> r.vol_profile,
                  support     |-> r.support,
                  resistance  |-> r.resistance,
                  errors      |-> IF r.escaped THEN errs2 \o <<"Processing error">>
                                  ELSE errs2 \o r.error,
                  escaped     |-> r.escaped]

Main(uploaded_file, button) ==
    \E run \in {Script(uploaded_file, button)} :
        /\ session' = run.session
        /\ df' = run.df
        /\ arg' = run.arg
        /\ bins' = run.bins
        /\ vol_profile' = run.vol_profile
        /\ support' = run.support
        /\ resistance' = run.resistance
        /\ errors' = run.errors
        /\ escaped' = run.escaped
        /\ UNCHANGED <<observed, source>>

\* a rerun with a file in the uploader
RerunUpload == Main(TRUE, "none")

\* a rerun started by the live-data button, the fetch succeeding
RerunLive == Main(FALSE, "ok")

\* a rerun started by the live-data button, the fetch failing
RerunLiveFailed == Main(FALSE, "fail")

\* any other rerun: the script falls back on the cached series
RerunCached == Main(FALSE, "none")

Init ==
    /\ observed \in BOOLEAN
    /\ source \in Sources
    /\ session = <<>>
    /\ df = <<>>
    /\ arg = <<>>
    /\ bins = <<>>
    /\ vol_profile = <<>>
    /\ support = <<>>
    /\ resistance = <<>>
    /\ errors = <<>>
    /\ escaped = FALSE

Next == RerunUpload \/ RerunLive \/ RerunLiveFailed \/ RerunCached

Spec == Init /\ [][Next]_vars

(***************************************************************************)
(* Vocabulary of the properties.  After a rerun that called the detector,  *)
(* arg is the series as it was handed over, df the same object after the   *)
(* call, bins / vol_profile the detector's locals and support / resistance *)
(* the pair it returned.                                                   *)
(***************************************************************************)
Called == arg # <<>>

\* line 34: the messages st.error can receive from the detector
AnalysisMessages ==
    {"Analysis error: " \o m :
        m \in {"'High'", "'Low'", "'Column not found: Volume'", "Cannot cut empty array"}}

AnalysisErrorShown == \E e \in 1..Len(errors) : errors[e] \in AnalysisMessages

\* the series has the three columns and at least one bar
WellFormed == Called /\ Required \subseteq arg[1].cols /\ Len(arg[1].rows) > 0

\* the detector returned from line 31
Succeeded == Called /\ ~escaped /\ ~AnalysisErrorShown

Total(s) ==
    LET S[k \in 0..Len(s)] == IF k = 0 THEN 0 ELSE S[k - 1] + s[k]
    IN  S[Len(s)]

Elements(s) == {s[k] : k \in 1..Len(s)}

Min(a, b) == IF a <= b THEN a ELSE b

\* rangeValue of every bar of the series handed over
RangeValues == RangeColumn(arg[1])

\* the bins that contain at least one bar
NonEmptyBins == Elements(bins) \ {0}

\* the summed volume of a bin: the volume of the bars whose code it is
BinVolume(i) ==
    Total(Array(Len(bins), LAMBDA k :
              IF bins[k] = i THEN arg[1].rows[k]["Volume"] ELSE 0))

BinVolumes == Array(BIN_COUNT, LAMBDA i : BinVolume(i))

\* the midpoint of every one of the 50 bins
BinMids ==
    LET c == Categories(BinEdges(RangeValues))
    IN  Array(BIN_COUNT, LAMBDA i : Mid(c[i]))

\* the bins whose midpoint a level sequence holds
BinsOf(levels) ==
    LET m == BinMids IN {i \in 1..BIN_COUNT : m[i] \in Elements(levels)}

\* the bins that have a row in the profile the selection ranks
RankedBins ==
    LET m == BinMids
        rows == DropNa(vol_profile)
    IN  {i \in 1..BIN_COUNT : \E j \in 1..Len(rows) : rows[j].mid = <<m[i]>>}

\* the bins that fewer than TOP_K bins beat by summed volume
TopBins ==
    LET v == BinVolumes
    IN  {i \in 1..BIN_COUNT : Cardinality({j \in 1..BIN_COUNT : v[j] > v[i]}) < TOP_K}

\* no two bins of equal summed volume stand on either side of the boundary
NoTieAtBoundary == Cardinality(TopBins) = TOP_K

Ascending(s) == \A i \in 1..Len(s) : \A j \in 1..Len(s) : i < j => s[i] <= s[j]

(***************************************************************************)
(* Properties                                                              *)
(***************************************************************************)
\* C1: whatever series the detector is given (an empty one, one lacking
\* High, Low or Volume), no exception leaves it; it reports an error to
\* st.error exactly when its computation failed, and exactly then it returns
\* the pair ([], []).
NeverRaises ==
    Called =>
        /\ ~escaped
        /\ AnalysisErrorShown <=> ~WellFormed
        /\ AnalysisErrorShown <=> (support = <<>> /\ resistance = <<>>)

\* C1, its case: an empty series with all three columns made pd.cut raise,
\* and the error was reported
EmptySeriesReported ==
    /\ Called
    /\ Required \subseteq arg[1].cols
    /\ Len(arg[1].rows) = 0
    /\ AnalysisErrorShown
    /\ support = <<>> /\ resistance = <<>>

\* C2: a detector call leaves the caller's series as it was: after the call
\* the object handed over has the same columns and the same values as before.
SeriesUnchanged == Called => df = arg

\* C3: when the detector does not fail, support and resistance both have
\* min(TOP_K, N) levels, N the number of bins that contain a bar.
LengthIsMinTopKNonEmpty ==
    Succeeded =>
        /\ Len(support) = Min(TOP_K, Cardinality(NonEmptyBins))
        /\ Len(resistance) = Min(TOP_K, Cardinality(NonEmptyBins))

\* C4: for a series of exactly one bar one bin is non-empty, and support and
\* resistance are both the one-element sequence of that bin's midpoint.
SingleBarSingleLevel ==
    (Succeeded /\ Len(arg[1].rows) = 1) =>
        /\ Cardinality(NonEmptyBins) = 1
        /\ support = <<BinMids[bins[1]]>>
        /\ resistance = <<BinMids[bins[1]]>>

\* C5: when more than 2 * TOP_K bins are non-empty, support and resistance
\* have no bin midpoint in common, whatever the volumes are.
DisjointAboveTwiceTopK ==
    (Succeeded /\ Cardinality(NonEmptyBins) > 2 * TOP_K) =>
        Elements(support) \cap Elements(resistance) = {}

\* C6: every support level and every resistance level is the midpoint of a
\* bin that contains at least one bar.
LevelsAreNonEmptyBins ==
    Succeeded =>
        /\ BinsOf(support) \subseteq NonEmptyBins
        /\ BinsOf(resistance) \subseteq NonEmptyBins

\* C7: with at least TOP_K non-empty bins and no tie at the selection
\* boundary, support is the set of the midpoints of the TOP_K bins of the
\* largest summed volume: no bin outside it has a strictly larger summed
\* volume than a bin inside it.  The summed volume of each of the 50 bins
\* counts, that of a bin no bar falls into being 0, so a bin without volume
\* at the boundary ties with the empty bins.
SupportIsTopVolume ==
    (Succeeded /\ Cardinality(NonEmptyBins) >= TOP_K /\ NoTieAtBoundary) =>
        /\ Len(support) = TOP_K
        /\ BinsOf(support) = TopBins
        /\ \A i \in BinsOf(support) : \A j \in (1..BIN_COUNT) \ BinsOf(support) :
               BinVolume(j) <= BinVolume(i)

\* C7, its case: more than TOP_K bins hold bars, the TOP_K largest summed
\* volumes differ from one another, and a bar with volume was left out
TopVolumeChosenAmongMany ==
    /\ Succeeded
    /\ Cardinality(NonEmptyBins) > TOP_K
    /\ NoTieAtBoundary
    /\ Cardinality({BinVolume(i) : i \in TopBins}) = TOP_K
    /\ \E j \in NonEmptyBins \ TopBins : BinVolume(j) > 0
    /\ BinsOf(support) = TopBins

\* C8: support and resistance are both in ascending price order.
LevelsAscending == Ascending(support) /\ Ascending(resistance)

\* C8, its case: the volume ranking picked the support bins in an order that
\* is not the price order
SelectionOrderRearranged ==
    /\ Succeeded
    /\ Len(support) = TOP_K
    /\ ~Ascending(MidValues(NLargest(DropNa(vol_profile), TOP_K)))
    /\ Ascending(support)

\* the rows of equal volume a selection took come before those it left
LowestIndexFirst(levels) ==
    \A i \in BinsOf(levels) : \A j \in RankedBins \ BinsOf(levels) :
        BinVolume(i) = BinVolume(j) => i < j

TiesByIndex ==
    (Succeeded /\ Len(support) = TOP_K) =>
        LowestIndexFirst(support) /\ LowestIndexFirst(resistance)

\* C9: the detector is deterministic.  A rerun that hands it the series the
\* previous rerun handed it, or the very object the previous call left behind
\* (the cached series), displays the same support and resistance; among bins
\* of equal summed volume the selection takes the lowest bin index first.
Deterministic ==
    /\ [][(Called /\ (arg' = arg \/ arg' = df)) =>
              (support' = support /\ resistance' = resistance)]_vars
    /\ []TiesByIndex

\* C9, its case: the detector ran on the object an earlier call had already
\* given the Range column, and volumes tied at the boundary
SecondCallOnSameObject ==
    /\ Succeeded
    /\ "Range" \in arg[1].cols
    /\ df = arg
    /\ session = df
    /\ Len(support) = TOP_K
    /\ ~NoTieAtBoundary

\* C10: for a series with a non-zero span every bar, the bar of the lowest
\* and the bar of the highest rangeValue included, lies in exactly one of the
\* 50 bins, and the per-bin volumes sum to the volume of all the bars.
VolumeConserved ==
    (Succeeded /\ SeqMin(RangeValues) # SeqMax(RangeValues)) =>
        LET edges == BinEdges(RangeValues)
        IN  /\ \A k \in 1..Len(bins) :
                   /\ bins[k] \in 1..BIN_COUNT
                   /\ \A i \in 1..BIN_COUNT :
                          (edges[i] < RangeValues[k] /\ RangeValues[k] <= edges[i + 1])
                              <=> i = bins[k]
            /\ Total(Volumes(vol_profile)) = Total(Column(arg[1], "Volume"))

\* C10, its case: bars of a series with a non-zero span share a bin and the
\* series has volume
SharedBinSummed ==
    /\ Succeeded
    /\ SeqMin(RangeValues) # SeqMax(RangeValues)
    /\ Cardinality(NonEmptyBins) < Len(bins)
    /\ \E i \in NonEmptyBins : BinVolume(i) > 1
    /\ Total(Volumes(vol_profile)) = Total(Column(arg[1], "Volume"))

====
